---------------------------- MODULE Spec2Model ----------------------------
(***************************************************************************)
(* A model of the FAT12 reader: the block reader of HAL.c (kmc), the       *)
(* FAT12 core of FATfs.c (fatfs_init, get_fat_entry_next, fatfs_read_dir,  *)
(* fatfs_read_file, the deallocators, fatfs_de_init) and a caller that     *)
(* uses the core the way main does: mount, then listings and file reads,   *)
(* each result released before the next call, then unmount.                *)
(*                                                                         *)
(* Bytes are numbers 0..255.  A C array is a function from 0-based         *)
(* indexes; a linked list is the sequence of its nodes.  The host is       *)
(* little-endian (memcpy of n bytes into an integer object sets its n      *)
(* low-order bytes).                                                       *)
(***************************************************************************)
EXTENDS Integers, Sequences, FiniteSets, TLC

(***************************************************************************)
(* Program constants.                                                      *)
(***************************************************************************)
KMC_DEFAULT_SECTOR_SIZE == 512
ENTRY_SIZE == 32
ATTR_LONG_NAME == 15
CHAIN_END_MIN == 4087

(***************************************************************************)
(* Bounds of the model.                                                    *)
(***************************************************************************)
\* error reports kept in the log; a walk that reports without end stops
\* being followed when the log is full
MaxErrs == 2
\* listings and file reads the caller asks for between mount and unmount
MaxCalls == 1
\* FAT entry pairs (2k, 2k + 1), k in 0..MaxPair, that lookups are tried on
MaxPair == 2
\* clusters one walk is followed through (a chain may loop)
MaxWalk == 3

\* fatfs_init is called at most this many times
MaxMounts == 2

\* a pass of fatfs_read_file that loses its buffer is followed while fewer
\* than this many blocks are lost
MaxLost == 3

(***************************************************************************)
(* C integer arithmetic on naturals.                                       *)
(***************************************************************************)
Pow2(n) == 2 ^ n

U8(x) == x % 256

U16(x) == x % 65536

\* x << n, x >> n on non-negative int values
Shl(x, n) == x * Pow2(n)

Shr(x, n) == x \div Pow2(n)

RECURSIVE BitAnd(_, _)
BitAnd(x, y) ==
    IF x = 0 \/ y = 0 THEN 0
    ELSE (IF x % 2 = 1 /\ y % 2 = 1 THEN 1 ELSE 0) + 2 * BitAnd(x \div 2, y \div 2)

RECURSIVE BitOr(_, _)
BitOr(x, y) ==
    IF x = 0 THEN y
    ELSE IF y = 0 THEN x
    ELSE (IF x % 2 = 1 \/ y % 2 = 1 THEN 1 ELSE 0) + 2 * BitOr(x \div 2, y \div 2)

\* memcpy of 2 bytes into a uint16_t
LE16(b0, b1) == b0 + 256 * b1

Min(a, b) == IF a < b THEN a ELSE b

Max(a, b) == IF a > b THEN a ELSE b


(***************************************************************************)
(* The volume image: the input of the program.  An image is described by   *)
(* its boot-sector fields, the first bytes of its FAT, the first slots of  *)
(* its root directory and of its data clusters, and its length in bytes;   *)
(* every byte not described is 0.  The regions lie where FAT12 puts them   *)
(* on a volume with one reserved sector: boot sector, the FAT copies, the  *)
(* root directory, the data area (cluster 2 first).  A complete image      *)
(* holds the data clusters 2, 3 and 4.                                     *)
(***************************************************************************)
Byte == 0 .. 255

ImgSectorSize(v) == IF v.boot.bps = 0 THEN KMC_DEFAULT_SECTOR_SIZE ELSE v.boot.bps

ImgRootStart(v) == 1 + v.boot.nfats * v.boot.spf

ImgRootSectors(v) == (v.boot.maxroot * ENTRY_SIZE) \div ImgSectorSize(v)

ImgDataStart(v) == ImgRootStart(v) + ImgRootSectors(v)

\* Length in bytes of an image that holds data clusters 2..last.
ImgBytes(boot, last) ==
    LET ss == IF boot.bps = 0 THEN KMC_DEFAULT_SECTOR_SIZE ELSE boot.bps
    IN  (1 + boot.nfats * boot.spf + (boot.maxroot * ENTRY_SIZE) \div ss
           + (last - 1) * boot.spc) * ss

\* Byte o of the boot sector: the fields parse_bootsector reads, the
\* reserved-sector count and the boot signature.
BootByte(boot, o) ==
    CASE o = 11 -> boot.bps % 256
      [] o = 12 -> boot.bps \div 256
      [] o = 13 -> boot.spc
      [] o = 14 -> 1
      [] o = 16 -> boot.nfats
      [] o = 17 -> boot.maxroot % 256
      [] o = 18 -> boot.maxroot \div 256
      [] o = 19 -> boot.total % 256
      [] o = 20 -> boot.total \div 256
      [] o = 22 -> boot.spf % 256
      [] o = 23 -> boot.spf \div 256
      [] o = 510 -> 85
      [] o = 511 -> 170
      [] OTHER -> 0

\* Byte i of a directory region whose first slots are p.
SlotsByte(p, i) ==
    IF i \div ENTRY_SIZE < Len(p) THEN p[i \div ENTRY_SIZE + 1][i % ENTRY_SIZE] ELSE 0

\* The byte at offset off of the image (off below the image length).
DiskByte(v, off) ==
    LET ss  == ImgSectorSize(v)
        sec == off \div ss
        o   == off % ss
    IN  IF sec = 0 THEN BootByte(v.boot, o)
        ELSE IF sec < ImgRootStart(v)
        THEN LET i == ((sec - 1) % v.boot.spf) * ss + o
             IN  IF i < Len(v.fat) THEN v.fat[i + 1] ELSE 0
        ELSE IF sec < ImgDataStart(v)
        THEN SlotsByte(v.root, (sec - ImgRootStart(v)) * ss + o)
        ELSE LET c == (sec - ImgDataStart(v)) \div v.boot.spc + 2
                 i == ((sec - ImgDataStart(v)) % v.boot.spc) * ss + o
             IN  IF c \in DOMAIN v.data THEN SlotsByte(v.data[c], i) ELSE 0

(***************************************************************************)
(* HAL.c: the block reader.                                                *)
(***************************************************************************)
\* a plausible slip: the count asked for is returned, not the count read
FreadCount_asked(v, index, want) == want

\* fseek + fread of want bytes at byte offset index: the number of bytes
\* the file still holds there, at most want.
FreadCount(v, index, want) == Min(want, Max(0, v.size - index))

\* A buffer of len bytes from calloc that one fread filled is kept as that
\* read: its byte i is byte at + i of the image for i < n, and 0 above.
FreadData(v, index, want, len) ==
    [ptr |-> "heap", len |-> len, at |-> index, n |-> FreadCount(v, index, want)]

NullBuf == [ptr |-> "NULL", len |-> 0, at |-> 0, n |-> 0]

\* free(p) leaves p as it is: a pointer to a block that is gone
free(b) == IF b.ptr = "heap" THEN [b EXCEPT !.ptr = "freed"] ELSE b

BufByte(v, b, i) == IF i < b.n THEN DiskByte(v, b.at + i) ELSE 0

\* kmc_update_sector_size: 1 and the new size, or 0 and the old size.
kmc_update_sector_size(old, sector_size) ==
    IF sector_size % KMC_DEFAULT_SECTOR_SIZE = 0
    THEN [result |-> 1, s_sectorSize |-> sector_size]
    ELSE [result |-> 0, s_sectorSize |-> old]

(***************************************************************************)
(* FATfs.c: the state of the core, of the block reader and of the caller.  *)
(***************************************************************************)
VARIABLES
    vol,            \* the image behind s_fptr; the program never writes it
    s_fptr,         \* "null", "open" or "closed"
    s_sectorSize,
    s_FAT12Infor,
    s_fat_table,    \* NULL, or the buffer holding the cached FAT
    num_cluster_in_root_directory,
    cluster_started_in_physical_of_rootdirectory,
    Cluster_starts_in_physical_of_the_data_area,
    s_dirList,      \* the static scratch entry of fatfs_read_dir
    Cluster_size,   \* main's copy of the result of fatfs_init
    pc,             \* where the program is
    arg,            \* the starting cluster the running call was given
    cur,            \* First_Logical_(Directory|Cluster)_of_current
    buff,           \* the local buff of the running call: "null" or "valid"
    head,           \* the list the running call has built so far
    walked,         \* the clusters the running call has processed, in order
    ret,            \* what the last call returned to the caller
    errs,           \* error_callback's reports during the last call, in order
    calls,          \* how many listings and file reads the caller has asked
                    \* for since the last fatfs_init
    mounts,         \* how many times fatfs_init has been called
    lost,           \* heap blocks no pointer refers to any more (never freed)
    seen,           \* the root listings fatfs_read_dir(0) has returned with
                    \* nothing reported, oldest first
    head_DirList,   \* main's pointer to the listing it shows: what it
                    \* points to ("NULL", "live" or "freed") and the nodes
    First_Logical_Cluster_of_choice
                    \* main's local: the first cluster of the entry chosen

vars == << vol, s_fptr, s_sectorSize, s_FAT12Infor, s_fat_table,
           num_cluster_in_root_directory,
           cluster_started_in_physical_of_rootdirectory,
           Cluster_starts_in_physical_of_the_data_area, s_dirList,
           Cluster_size, pc, arg, cur, buff, head, walked, ret, errs, calls,
           mounts, lost, seen, head_DirList,
           First_Logical_Cluster_of_choice >>

\* ret: the kind of call, its argument, the list returned and the clusters
\* the call processed
NoRet == [kind |-> "none", arg |-> 0, list |-> << >>, walked |-> << >>]

\* main's static head_DirList = NULL
NullList == [st |-> "NULL", list |-> << >>]

\* s_FAT12Infor and s_dirList are static objects: all bytes 0 at start.
ZeroInfor ==
    [bytes_per_sector |-> 0, sectors_per_cluster |-> 0, Number_of_FATs |-> 0,
     Maximum_number_of_root_directory_entries |-> 0, Total_sector_count |-> 0,
     Sectors_per_FAT |-> 0]

ZeroDirList ==
    [File_name |-> [k \in 0 .. 8 |-> 0], Extension |-> [k \in 0 .. 4 |-> 0],
     Attributes |-> 0, Creation_Time |-> 0, Creation_Date |-> 0,
     Last_Write_Time |-> 0, Last_Write_Date |-> 0, First_Logical_Cluster |-> 0,
     File_Size_in_bytes |-> [k \in 0 .. 7 |-> 0]]

(***************************************************************************)
(* get_fat_entry_next.                                                     *)
(***************************************************************************)
\* The two bytes the lookup of entry n reads lie inside the table.
FatInBounds(table, n) == table.ptr # "NULL" /\ (3 * n) \div 2 + 1 < table.len

\* a plausible slip: the odd entry takes the low nibble of the shared byte
get_fat_entry_next_nibble(table, n) ==
    LET i == (3 * n) \div 2
    IN  IF n % 2 = 0
        THEN U16(BitOr(Shl(BitAnd(table[i + 1], 15), 8), table[i]))
        ELSE U16(BitOr(Shl(table[i + 1], 4), BitAnd(table[i], 15)))

get_fat_entry_next(table, n) ==
    LET i == (3 * n) \div 2
    IN  IF n % 2 = 0
        THEN U16(BitOr(Shl(BitAnd(table[i + 1], 15), 8), table[i]))
        ELSE U16(BitOr(Shl(table[i + 1], 4), Shr(BitAnd(table[i], 240), 4)))

(***************************************************************************)
(* parse_bootsector: memcpy of the fields out of the boot-sector buffer.   *)
(* sectors_per_cluster is a uint16_t of which one byte is copied: its      *)
(* high byte keeps what it held.                                           *)
(***************************************************************************)
parse_bootsector(old, v, buf) ==
    LET b(k) == BufByte(v, buf, k)
    IN  [bytes_per_sector |-> LE16(b(11), b(12)),
         sectors_per_cluster |-> (old.sectors_per_cluster \div 256) * 256 + b(13),
         Number_of_FATs |-> b(16),
         Maximum_number_of_root_directory_entries |-> LE16(b(17), b(18)),
         Total_sector_count |-> LE16(b(19), b(20)),
         Sectors_per_FAT |-> LE16(b(22), b(23))]

(***************************************************************************)
(* fatfs_read_dir: decoding one slot into s_dirList.  b is the cluster     *)
(* buffer as the read filled it (the image from byte offset base on),      *)
(* i the offset of the slot in it.  File_Size_in_bytes, a uint64_t, is     *)
(* kept as its eight bytes, low byte first.  Extension[3] and the four     *)
(* high bytes of File_Size_in_bytes are not written.                       *)
(***************************************************************************)
\* a plausible slip: two bytes of the size copied instead of four
DecodeSlot_size2(old, v, base, i) ==
    LET b(k) == DiskByte(v, base + i + k)
    IN  [File_name |-> [k \in 0 .. 8 |-> IF k < 8 THEN b(k) ELSE 0],
         Extension |-> [k \in 0 .. 4 |->
                           IF k < 3 THEN b(8 + k)
                           ELSE IF k = 4 THEN 0 ELSE old.Extension[k]],
         Attributes |-> b(11),
         Creation_Time |-> LE16(b(14), b(15)),
         Creation_Date |-> LE16(b(16), b(17)),
         Last_Write_Time |-> LE16(b(22), b(23)),
         Last_Write_Date |-> LE16(b(24), b(25)),
         First_Logical_Cluster |-> LE16(b(26), b(27)),
         File_Size_in_bytes |-> [k \in 0 .. 7 |->
                           IF k < 2 THEN b(28 + k) ELSE old.File_Size_in_bytes[k]]]

\* a plausible slip: the first cluster taken from bytes 20..21 (the high
\* word of FAT32) instead of 26..27
DecodeSlot_hiword(old, v, base, i) ==
    LET b(k) == DiskByte(v, base + i + k)
    IN  [File_name |-> [k \in 0 .. 8 |-> IF k < 8 THEN b(k) ELSE 0],
         Extension |-> [k \in 0 .. 4 |->
                           IF k < 3 THEN b(8 + k)
                           ELSE IF k = 4 THEN 0 ELSE old.Extension[k]],
         Attributes |-> b(11),
         Creation_Time |-> LE16(b(14), b(15)),
         Creation_Date |-> LE16(b(16), b(17)),
         Last_Write_Time |-> LE16(b(22), b(23)),
         Last_Write_Date |-> LE16(b(24), b(25)),
         First_Logical_Cluster |-> LE16(b(20), b(21)),
         File_Size_in_bytes |-> [k \in 0 .. 7 |->
                           IF k < 4 THEN b(28 + k) ELSE old.File_Size_in_bytes[k]]]

DecodeSlot(old, v, base, i) ==
    LET b(k) == DiskByte(v, base + i + k)
    IN  [File_name |-> [k \in 0 .. 8 |-> IF k < 8 THEN b(k) ELSE 0],
         Extension |-> [k \in 0 .. 4 |->
                           IF k < 3 THEN b(8 + k)
                           ELSE IF k = 4 THEN 0 ELSE old.Extension[k]],
         Attributes |-> b(11),
         Creation_Time |-> LE16(b(14), b(15)),
         Creation_Date |-> LE16(b(16), b(17)),
         Last_Write_Time |-> LE16(b(22), b(23)),
         Last_Write_Date |-> LE16(b(24), b(25)),
         First_Logical_Cluster |-> LE16(b(26), b(27)),
         File_Size_in_bytes |-> [k \in 0 .. 7 |->
                           IF k < 4 THEN b(28 + k) ELSE old.File_Size_in_bytes[k]]]

\* createNodeEntry + memcpy of s_dirList into the node: the node, with the
\* image offset of the slot it was decoded from.
NewDirNode(dl, src) == [data |-> dl, src |-> src]

(***************************************************************************)
(* The for loops of fatfs_read_dir over the slots of a buffer of n bytes.  *)
(* st is [dl, head, allocs, ok]: s_dirList, the list so far, how many node *)
(* allocations still succeed, and whether the loop is still running        *)
(* normally (FALSE once a node was written through a null pointer).        *)
(***************************************************************************)
\* a plausible slip: the attribute is not looked at
SlotIsEntry_anyattr(v, base, i) == DiskByte(v, base + i) # 0

\* is this slot decoded?
SlotIsEntry(v, base, i) ==
    DiskByte(v, base + i) # 0 /\ DiskByte(v, base + i + 11) # ATTR_LONG_NAME

\* a plausible slip: a long-name slot is never taken as the end
SlotIsEnd_notlfn(v, base, i) ==
    DiskByte(v, base + i) = 0 /\ DiskByte(v, base + i + 11) # ATTR_LONG_NAME

\* does this slot end the scan of the buffer?
SlotIsEnd(v, base, i) == DiskByte(v, base + i) = 0

\* tail->next = newNode (or head = newNode)
AppendNode(st, dl, src) ==
    IF st.allocs = 0
    THEN [dl |-> dl, head |-> st.head, allocs |-> 0, ok |-> FALSE]
    ELSE [dl |-> dl, head |-> Append(st.head, NewDirNode(dl, src)),
          allocs |-> st.allocs - 1, ok |-> TRUE]

\* the self-reference filter of the subdirectory loop
KeepSubEntry(current, dl) == current # dl.First_Logical_Cluster

RECURSIVE ScanRoot(_, _, _, _, _)
ScanRoot(v, base, n, i, st) ==
    IF i >= n \/ ~st.ok THEN st
    ELSE IF SlotIsEntry(v, base, i)
    THEN ScanRoot(v, base, n, i + ENTRY_SIZE,
                  AppendNode(st, DecodeSlot(st.dl, v, base, i), base + i))
    ELSE IF SlotIsEnd(v, base, i)
    THEN ScanRoot(v, base, n, n + ENTRY_SIZE, st)
    ELSE ScanRoot(v, base, n, i + ENTRY_SIZE, st)

RECURSIVE ScanSub(_, _, _, _, _, _)
ScanSub(v, base, n, i, current, st) ==
    IF i >= n \/ ~st.ok THEN st
    ELSE IF SlotIsEntry(v, base, i)
    THEN LET dl == DecodeSlot(st.dl, v, base, i)
         IN  IF KeepSubEntry(current, dl)
             THEN ScanSub(v, base, n, i + ENTRY_SIZE, current,
                          AppendNode(st, dl, base + i))
             ELSE ScanSub(v, base, n, i + ENTRY_SIZE, current,
                          [st EXCEPT !.dl = dl])
    ELSE IF SlotIsEnd(v, base, i)
    THEN ScanSub(v, base, n, n + ENTRY_SIZE, current, st)
    ELSE ScanSub(v, base, n, i + ENTRY_SIZE, current, st)

(***************************************************************************)
(* fatfs_init, with kmc_init, kmc_read_sector, get_fat_table inlined.      *)
(* The environment decides: opened (fopen), bootAlloc and fatAlloc (the    *)
(* two calloc), div0 (what a division by zero does on the build: "trap"    *)
(* or "zero").  The value is the state fatfs_init leaves and its result.   *)
(***************************************************************************)
\* a plausible slip: Cluster_size kept across calls instead of starting at 0
InitStopped_static(fptr, infor, secsize, err) ==
    [s_fptr |-> fptr, s_sectorSize |-> secsize, infor |-> infor,
     fat |-> s_fat_table,
     nroot |-> num_cluster_in_root_directory,
     rootstart |-> cluster_started_in_physical_of_rootdirectory,
     datastart |-> Cluster_starts_in_physical_of_the_data_area,
     result |-> Cluster_size, errs |-> << err >>, crashed |-> FALSE]

\* what fatfs_init leaves when it stops before get_fat_table
InitStopped(fptr, infor, secsize, err) ==
    [s_fptr |-> fptr, s_sectorSize |-> secsize, infor |-> infor,
     fat |-> s_fat_table,
     nroot |-> num_cluster_in_root_directory,
     rootstart |-> cluster_started_in_physical_of_rootdirectory,
     datastart |-> Cluster_starts_in_physical_of_the_data_area,
     result |-> 0, errs |-> << err >>, crashed |-> FALSE]

\* get_fat_table: [fat, errs]
get_fat_table(v, infor, secsize, fatAlloc) ==
    LET len  == infor.bytes_per_sector * infor.Sectors_per_FAT
        at   == infor.bytes_per_sector * infor.sectors_per_cluster
        want == secsize * infor.Sectors_per_FAT
    IN  IF ~fatAlloc
        THEN [fat |-> NullBuf, errs |-> << "DYNAMIC_ALLOCATON_ERROR" >>]
        ELSE [fat |-> FreadData(v, at, want, len),
              errs |-> IF FreadCount(v, at, want)
                            # infor.Sectors_per_FAT * infor.bytes_per_sector
                       THEN << "MULTIPLE_SECTOR_READ_ERROR" >> ELSE << >>]

\* a / b of C on non-negative ints; a division by zero that does not trap
\* yields 0
CDiv(a, b) == IF b = 0 THEN 0 ELSE a \div b

\* a plausible slip: the reserved boot sector is not counted
Geometry_noboot(infor) ==
    LET nroot == U16(CDiv(infor.Maximum_number_of_root_directory_entries * ENTRY_SIZE,
                          infor.bytes_per_sector))
    IN  [Cluster_size |-> infor.sectors_per_cluster * infor.bytes_per_sector,
         nroot |-> nroot,
         rootstart |-> U16(infor.Number_of_FATs * infor.Sectors_per_FAT),
         datastart |-> U16(infor.Number_of_FATs * infor.Sectors_per_FAT + nroot)]

\* lines 236-245: the derived geometry, in the width of its variables
Geometry(infor) ==
    LET nroot == U16(CDiv(infor.Maximum_number_of_root_directory_entries * ENTRY_SIZE,
                          infor.bytes_per_sector))
    IN  [Cluster_size |-> infor.sectors_per_cluster * infor.bytes_per_sector,
         nroot |-> nroot,
         rootstart |-> U16(infor.Number_of_FATs * infor.Sectors_per_FAT + 1),
         datastart |-> U16(infor.Number_of_FATs * infor.Sectors_per_FAT + nroot + 1)]

fatfs_init(v, opened, bootAlloc, fatAlloc, div0) ==
    IF ~opened
    THEN InitStopped("null", s_FAT12Infor, KMC_DEFAULT_SECTOR_SIZE, "ERROR_OPENING_FILE")
    ELSE IF ~bootAlloc
    THEN InitStopped("open", s_FAT12Infor, KMC_DEFAULT_SECTOR_SIZE,
                     "DYNAMIC_ALLOCATON_ERROR")
    ELSE IF FreadCount(v, 0, KMC_DEFAULT_SECTOR_SIZE) # KMC_DEFAULT_SECTOR_SIZE
    THEN InitStopped("open", s_FAT12Infor, KMC_DEFAULT_SECTOR_SIZE,
                     "BOOT_SECTOR_READ_ERROR")
    ELSE
      LET infor == parse_bootsector(s_FAT12Infor, v,
                       FreadData(v, 0, KMC_DEFAULT_SECTOR_SIZE, KMC_DEFAULT_SECTOR_SIZE))
          upd   == kmc_update_sector_size(KMC_DEFAULT_SECTOR_SIZE, infor.bytes_per_sector)
      IN  IF upd.result = 0
          THEN InitStopped("open", infor, upd.s_sectorSize, "ERROR_UPDATING_SECTOR_SIZE")
          ELSE
            LET t == get_fat_table(v, infor, upd.s_sectorSize, fatAlloc)
                g == Geometry(infor)
            IN  [s_fptr |-> "open", s_sectorSize |-> upd.s_sectorSize,
                 infor |-> infor, fat |-> t.fat,
                 nroot |-> g.nroot, rootstart |-> g.rootstart,
                 datastart |-> g.datastart, result |-> g.Cluster_size,
                 errs |-> t.errs,
                 crashed |-> infor.bytes_per_sector = 0 /\ div0 = "trap"]

(***************************************************************************)
(* The images the program is run on.                                       *)
(***************************************************************************)
\* A 32-byte slot: first name byte, attribute, first cluster; the other
\* bytes are filled from salt so that slots differ in every field.
MkSlot(first, attr, fc, salt) ==
    [k \in 0 .. ENTRY_SIZE - 1 |->
        CASE k = 0 -> first
          [] k = 11 -> attr
          [] k = 26 -> fc % 256
          [] k = 27 -> fc \div 256
          [] OTHER -> (salt * 37 + k * 5 + 1) % 256]

SlotFile == MkSlot(70, 32, 4, 1)

SlotDir2 == MkSlot(68, 16, 2, 2)

SlotDir3 == MkSlot(69, 16, 3, 3)

SlotLfn == MkSlot(65, 15, 0, 4)

SlotEnd == MkSlot(0, 32, 4, 5)

SlotEndLfn == MkSlot(0, 15, 0, 6)

SlotDeleted == MkSlot(229, 32, 4, 7)

SlotKinds == {SlotFile, SlotDir2, SlotDir3, SlotLfn, SlotEnd, SlotEndLfn, SlotDeleted}

\* the first slots of the root region and of cluster 2; of cluster 3
DirImages == {<< a, b >> : a \in SlotKinds, b \in SlotKinds}

TailImages == {<< a >> : a \in {SlotFile, SlotDir2, SlotDir3, SlotEnd}}

\* Two 12-bit FAT entries in three bytes.
Pack12(a, b) == << a % 256, (a \div 256) + 16 * (b % 16), b \div 16 >>

\* The FAT entries of clusters 2, 3 and 4; entries 0 and 1 hold the media
\* descriptor and an end mark; entry 5 is free.
FatChains ==
    { << 4095, 4095, 4095 >>,   \* three one-cluster chains
      << 3, 4095, 4095 >>,      \* 2 -> 3
      << 3, 4087, 4095 >>,      \* 2 -> 3, ended by 0xFF7
      << 3, 4, 4088 >>,         \* 2 -> 3 -> 4, ended by 0xFF8
      << 3, 2, 4095 >>,         \* 2 -> 3 -> 2 -> ...
      << 4086, 4095, 4095 >> }  \* 2 -> 0xFF6, a cluster the image lacks

\* the FAT bytes of a sequence of entries (an even number of them)
RECURSIVE PackAll(_)
PackAll(es) ==
    IF Len(es) < 2 THEN << >>
    ELSE Pack12(es[1], es[2]) \o PackAll(SubSeq(es, 3, Len(es)))

FatEntries(ch) == << 4080, 4095, ch[1], ch[2], ch[3], 0 >>

\* 512-byte sectors, one sector per cluster, two FATs of one sector, a root
\* directory of 16 slots: root at sector 3, data area at sector 4.
SmallBoot ==
    [bps |-> 512, spc |-> 1, nfats |-> 2, maxroot |-> 16,
     total |-> 7, spf |-> 1]

FileData(c) == << MkSlot(100 + c, c, c, c) >>

\* entries: the FAT entries the image was built from; fat: their bytes
MkVol(boot, es, d2, d3, cut) ==
    [boot |-> boot, entries |-> es, fat |-> PackAll(es), root |-> d2,
     data |-> [c \in 2 .. 4 |->
                  IF c = 2 THEN d2 ELSE IF c = 3 THEN d3 ELSE FileData(c)],
     size |-> ImgBytes(boot, 4) - cut]

\* a complete image, or one that ends in the middle of cluster 3
ImageCuts == {0, 612}

\* every directory content, on complete images with one-cluster chains;
\* every chain, on complete and on cut images, with two directory contents
\* and every content of cluster 3
Volumes ==
    {MkVol(SmallBoot, FatEntries(<< 4095, 4095, 4095 >>), d2, << SlotFile >>, 0) :
        d2 \in DirImages}
    \cup
    {MkVol(SmallBoot, FatEntries(ch), d2, d3, cut) :
        ch \in FatChains,
        d2 \in {<< SlotLfn, SlotFile >>, << SlotDir2, SlotEnd >>},
        d3 \in TailImages, cut \in ImageCuts}

\* the starting clusters the caller asks for
CallArgs == 2 .. 4

(***************************************************************************)
(* The program.                                                            *)
(***************************************************************************)
InitOn(images) ==
    /\ vol \in images
    /\ s_fptr = "null"
    /\ s_sectorSize = 0
    /\ s_FAT12Infor = ZeroInfor
    /\ s_fat_table = NullBuf
    /\ num_cluster_in_root_directory = 0
    /\ cluster_started_in_physical_of_rootdirectory = 0
    /\ Cluster_starts_in_physical_of_the_data_area = 0
    /\ s_dirList = ZeroDirList
    /\ Cluster_size = 0
    /\ pc = "boot"
    /\ arg = 0
    /\ cur = 0
    /\ buff = "null"
    /\ head = << >>
    /\ walked = << >>
    /\ ret = NoRet
    /\ errs = << >>
    /\ calls = 0
    /\ mounts = 0
    /\ lost = 0
    /\ seen = << >>
    /\ head_DirList = NullList
    /\ First_Logical_Cluster_of_choice = 0

Init == InitOn(Volumes)

\* a plausible slip: cluster numbers taken to start at 1
ClusterOffset_from1(c) ==
    (Cluster_starts_in_physical_of_the_data_area - 1 + c) * s_FAT12Infor.bytes_per_sector

\* the byte offset of data cluster c (lines 382, 505)
ClusterOffset(c) ==
    (Cluster_starts_in_physical_of_the_data_area - 2 + c) * s_FAT12Infor.bytes_per_sector

\* the bytes of a full cluster (lines 385, 508)
ClusterBytes == s_FAT12Infor.sectors_per_cluster * s_FAT12Infor.bytes_per_sector

\* a plausible slip: only 0xFF8..0xFFF taken as the end of a chain
ChainContinues_ff8(c) == CHAIN_END_MIN + 1 > c

\* the loop condition of both walks (lines 458, 544)
ChainContinues(c) == CHAIN_END_MIN > c

\* how many node allocations succeed in one scan of n bytes: none, one, all
AllocBudgets(n) == {0, 1, n \div ENTRY_SIZE}

\* What the environment can do during fatfs_init: the first thing that
\* fails, if any, and what a division by zero does where one happens.
MountEnvs(v) ==
    {[opened |-> o, bootAlloc |-> b, fatAlloc |-> f, div0 |-> d] :
        o \in BOOLEAN, b \in BOOLEAN, f \in BOOLEAN, d \in {"trap", "zero"}}
    \ {e \in [opened : BOOLEAN, bootAlloc : BOOLEAN, fatAlloc : BOOLEAN,
              div0 : {"trap", "zero"}] :
          \/ ~e.opened /\ ~(e.bootAlloc /\ e.fatAlloc)
          \/ ~e.bootAlloc /\ ~e.fatAlloc
          \/ ~(e.opened /\ e.bootAlloc) /\ e.div0 = "trap"
          \/ v.boot.bps # 0 /\ e.div0 = "trap"}

\* a call of fatfs_init and what the caller does with its result (main,
\* lines 409-412 and 547: go on only if the cluster size is not 0)
CallInit ==
    /\ mounts' = mounts + 1
    /\ \E e \in MountEnvs(vol) :
         LET r == fatfs_init(vol, e.opened, e.bootAlloc, e.fatAlloc, e.div0)
         IN  /\ s_fptr' = r.s_fptr
             /\ s_sectorSize' = r.s_sectorSize
             /\ s_FAT12Infor' = r.infor
             /\ s_fat_table' = r.fat
             /\ num_cluster_in_root_directory' = r.nroot
             /\ cluster_started_in_physical_of_rootdirectory' = r.rootstart
             /\ Cluster_starts_in_physical_of_the_data_area' = r.datastart
             /\ Cluster_size' = IF r.crashed THEN Cluster_size ELSE r.result
             /\ errs' = r.errs
             /\ lost' = IF r.errs = << "BOOT_SECTOR_READ_ERROR" >>
                        THEN lost + 1 ELSE lost
             /\ pc' = IF r.crashed THEN "crashed"
                      ELSE IF r.result # 0 THEN "idle" ELSE "failed"
    /\ UNCHANGED << vol, s_dirList, arg, cur, buff, head, walked, ret, seen,
                    head_DirList, First_Logical_Cluster_of_choice >>

\* the first fatfs_init of the process
Mount ==
    /\ pc = "boot"
    /\ CallInit
    /\ UNCHANGED calls

\* fatfs_init by a caller that may call it again after fatfs_de_init: the
\* first call of the process, or a later one
Remount ==
    /\ pc \in {"boot", "done"}
    /\ mounts < MaxMounts
    /\ CallInit
    /\ calls' = 0

\* fatfs_read_dir(0), lines 290-369 and 471
RootCall ==
    /\ calls' = calls + 1
    /\ LET len   == s_FAT12Infor.bytes_per_sector * s_FAT12Infor.sectors_per_cluster
                       * num_cluster_in_root_directory
           index == cluster_started_in_physical_of_rootdirectory
                       * s_FAT12Infor.bytes_per_sector
           want  == s_sectorSize * num_cluster_in_root_directory
           n     == FreadCount(vol, index, want)
       IN  \E bufAlloc \in BOOLEAN, allocs \in AllocBudgets(len) :
             IF ~bufAlloc
             THEN /\ errs' = << "DYNAMIC_ALLOCATON_ERROR" >>
                  /\ ret' = [kind |-> "dir", arg |-> 0, list |-> << >>, walked |-> << >>]
                  /\ pc' = "idle"
                  /\ UNCHANGED << s_dirList, lost, seen >>
             ELSE IF n # s_FAT12Infor.bytes_per_sector * num_cluster_in_root_directory
             THEN /\ errs' = << "ERROR_READING_ROOT_DIRECTORY" >>
                  /\ ret' = [kind |-> "dir", arg |-> 0, list |-> << >>, walked |-> << >>]
                  /\ lost' = lost + 1
                  /\ pc' = "idle"
                  /\ UNCHANGED << s_dirList, seen >>
             ELSE LET st == ScanRoot(vol, index, n, 0,
                               [dl |-> s_dirList, head |-> << >>,
                                allocs |-> allocs, ok |-> TRUE])
                  IN  /\ s_dirList' = st.dl
                      /\ lost' = lost
                      /\ seen' = IF st.ok THEN Append(seen, st.head) ELSE seen
                      /\ errs' = IF st.ok THEN << >>
                                 ELSE << "DYNAMIC_ALLOCATON_ERROR" >>
                      /\ pc' = IF st.ok THEN "idle" ELSE "crashed"
                      /\ ret' = IF st.ok
                                THEN [kind |-> "dir", arg |-> 0, list |-> st.head,
                                      walked |-> << >>]
                                ELSE ret
    /\ UNCHANGED << First_Logical_Cluster_of_choice, head_DirList, mounts, vol, s_fptr, s_sectorSize,
                    s_FAT12Infor, s_fat_table,
                    num_cluster_in_root_directory,
                    cluster_started_in_physical_of_rootdirectory,
                    Cluster_starts_in_physical_of_the_data_area,
                    Cluster_size, arg, cur, buff, head, walked >>

\* a caller asks for the listing of the root directory
ReadDirRoot ==
    /\ pc = "idle"
    /\ calls < MaxCalls
    /\ ret = NoRet
    /\ RootCall

\* what the lookup reads: the table, and junk where it reads outside it
FatView(v, table, n, junk) ==
    [i \in {(3 * n) \div 2, (3 * n) \div 2 + 1} |->
        IF table.ptr # "NULL" /\ i < table.len THEN BufByte(v, table, i) ELSE junk]

\* What undefined behaviour can do on the build.  A read into a null
\* buffer: "trap", or the read is "rejected" (0 bytes), or it is carried
\* out ("stored").  A FAT lookup outside the table (or through a null
\* table): "trap", or it reads junk bytes.
NullReadOutcomes(b) == IF b = "null" THEN {"trap", "rejected", "stored"} ELSE {"stored"}

LookupOutcomes(n) ==
    IF FatInBounds(s_fat_table, n)
    THEN {[trap |-> FALSE, junk |-> 0]}
    ELSE {[trap |-> TRUE, junk |-> 0], [trap |-> FALSE, junk |-> 0],
          [trap |-> FALSE, junk |-> 255]}

\* return list: the caller holds the list, the locals of the call are gone
Return(kind, list, done) ==
    /\ pc' = "idle"
    /\ ret' = [kind |-> kind, arg |-> arg, list |-> list, walked |-> done]
    /\ arg' = 0
    /\ cur' = 0
    /\ buff' = "null"
    /\ head' = << >>
    /\ walked' = << >>

\* the process is gone
Crash ==
    /\ pc' = "crashed"
    /\ UNCHANGED << arg, cur, buff, head, walked, ret, lost >>

\* fatfs_read_dir(S), S # 0: lines 373-376, 463-471 (the calloc of the buffer)
SubCall(S) ==
    /\ calls' = calls + 1
    /\ \E bufAlloc \in BOOLEAN :
         IF bufAlloc
         THEN /\ pc' = "dir"
              /\ arg' = S
              /\ cur' = S
              /\ buff' = "valid"
              /\ errs' = << >>
              /\ UNCHANGED << head, walked, ret >>
         ELSE /\ errs' = << "DYNAMIC_ALLOCATON_ERROR" >>
              /\ pc' = "idle"
              /\ ret' = [kind |-> "dir", arg |-> S, list |-> << >>,
                          walked |-> << >>]
              /\ arg' = 0
              /\ UNCHANGED << cur, buff, head, walked >>
    /\ UNCHANGED << First_Logical_Cluster_of_choice, head_DirList, mounts, seen, lost, vol, s_fptr, s_sectorSize,
                    s_FAT12Infor, s_fat_table,
                    num_cluster_in_root_directory,
                    cluster_started_in_physical_of_rootdirectory,
                    Cluster_starts_in_physical_of_the_data_area, s_dirList,
                    Cluster_size >>

\* a caller asks for the listing of the directory that starts at a cluster
ReadDirSub ==
    /\ pc = "idle"
    /\ calls < MaxCalls
    /\ ret = NoRet
    /\ \E S \in CallArgs : SubCall(S)

\* One pass of the do-while of fatfs_read_dir, lines 379-458, and on leaving
\* the loop lines 461 and 471.
DirStep ==
    /\ pc = "dir"
    /\ \E ub \in NullReadOutcomes(buff), lk \in LookupOutcomes(cur),
          allocs \in AllocBudgets(ClusterBytes) :
         LET want == s_sectorSize * s_FAT12Infor.sectors_per_cluster
             n    == IF ub = "rejected" THEN 0
                     ELSE FreadCount(vol, ClusterOffset(cur), want)
         IN  IF ub = "trap"
             THEN /\ Crash
                  /\ UNCHANGED << s_dirList, errs >>
             ELSE IF n = ClusterBytes
             THEN LET st   == ScanSub(vol, ClusterOffset(cur), n, 0, cur,
                                 [dl |-> s_dirList, head |-> head,
                                  allocs |-> allocs, ok |-> TRUE])
                      next == get_fat_entry_next(
                                  FatView(vol, s_fat_table, cur, lk.junk), cur)
                  IN  /\ Len(walked) < MaxWalk
                      /\ s_dirList' = st.dl
                      /\ IF ~st.ok
                         THEN /\ Crash
                              /\ errs' = Append(errs, "DYNAMIC_ALLOCATON_ERROR")
                         ELSE IF lk.trap
                         THEN /\ Crash
                              /\ errs' = errs
                         ELSE /\ errs' = errs
                              /\ lost' = IF buff = "valid" THEN lost + 1 ELSE lost
                              /\ IF ChainContinues(next)
                                 THEN /\ head' = st.head
                                      /\ walked' = Append(walked, cur)
                                      /\ cur' = next
                                      /\ buff' = "null"
                                      /\ UNCHANGED << pc, arg, ret >>
                                 ELSE Return("dir", st.head, Append(walked, cur))
             ELSE /\ Len(errs) < MaxErrs
                  /\ errs' = Append(errs, "ERROR_READING_SUB_DIRECTORY")
                  /\ s_dirList' = s_dirList
                  /\ lost' = lost
                  /\ IF ChainContinues(cur)
                     THEN UNCHANGED << pc, arg, cur, buff, head, walked, ret >>
                     ELSE Return("dir", head, walked)
    /\ UNCHANGED << First_Logical_Cluster_of_choice, head_DirList, calls, mounts, seen, vol, s_fptr, s_sectorSize,
                    s_FAT12Infor, s_fat_table,
                    num_cluster_in_root_directory,
                    cluster_started_in_physical_of_rootdirectory,
                    Cluster_starts_in_physical_of_the_data_area,
                    Cluster_size >>

\* fatfs_read_file(S): entry, lines 479-492
FileCall(S) ==
    /\ calls' = calls + 1
    /\ arg' = S
    /\ cur' = S
    /\ pc' = "file"
    /\ errs' = << >>
    /\ UNCHANGED << First_Logical_Cluster_of_choice, head_DirList, mounts, seen, lost, vol, s_fptr, s_sectorSize,
                    s_FAT12Infor, s_fat_table,
                    num_cluster_in_root_directory,
                    cluster_started_in_physical_of_rootdirectory,
                    Cluster_starts_in_physical_of_the_data_area, s_dirList,
                    Cluster_size, buff, head, walked, ret >>

\* a caller asks for the contents of the file that starts at a cluster
ReadFile ==
    /\ pc = "idle"
    /\ calls < MaxCalls
    /\ ret = NoRet
    /\ \E S \in CallArgs : FileCall(S)

\* createNodeCluster + line 514: the node owning the buffer
NewClusterNode(data) == [data_in_cluster |-> data]

\* One pass of the do-while of fatfs_read_file, lines 495-544, and on
\* leaving the loop line 546.
FileStep ==
    /\ pc = "file"
    /\ \E bufAlloc \in BOOLEAN, nodeAlloc \in BOOLEAN, lk \in LookupOutcomes(cur) :
         LET want == s_sectorSize * s_FAT12Infor.sectors_per_cluster
             data == FreadData(vol, ClusterOffset(cur), want, ClusterBytes)
             next == get_fat_entry_next(FatView(vol, s_fat_table, cur, lk.junk), cur)
         IN  IF ~bufAlloc
             THEN /\ Len(errs) < MaxErrs
                  /\ errs' = Append(errs, "DYNAMIC_ALLOCATON_ERROR")
                  /\ lost' = lost
                  /\ IF ChainContinues(cur)
                     THEN UNCHANGED << pc, arg, cur, buff, head, walked, ret >>
                     ELSE Return("file", head, walked)
             ELSE IF data.n = s_FAT12Infor.bytes_per_sector
                                 * s_FAT12Infor.sectors_per_cluster
             THEN /\ Len(walked) < MaxWalk
                  /\ IF ~nodeAlloc
                     THEN /\ Crash
                          /\ errs' = Append(errs, "DYNAMIC_ALLOCATON_ERROR")
                     ELSE IF lk.trap
                     THEN /\ Crash
                          /\ errs' = errs
                     ELSE /\ errs' = errs
                          /\ lost' = lost
                          /\ IF ChainContinues(next)
                             THEN /\ head' = Append(head, NewClusterNode(data))
                                  /\ walked' = Append(walked, cur)
                                  /\ cur' = next
                                  /\ UNCHANGED << pc, arg, buff, ret >>
                             ELSE Return("file", Append(head, NewClusterNode(data)),
                                         Append(walked, cur))
             ELSE /\ lost < MaxLost
                  /\ errs' = errs
                  /\ lost' = lost + 1
                  /\ IF ChainContinues(cur)
                     THEN UNCHANGED << pc, arg, cur, buff, head, walked, ret >>
                     ELSE Return("file", head, walked)
    /\ UNCHANGED << First_Logical_Cluster_of_choice, head_DirList, calls, mounts, seen, vol, s_fptr, s_sectorSize,
                    s_FAT12Infor, s_fat_table,
                    num_cluster_in_root_directory,
                    cluster_started_in_physical_of_rootdirectory,
                    Cluster_starts_in_physical_of_the_data_area, s_dirList,
                    Cluster_size >>

\* a plausible slip: releasing a list also frees the cached FAT
Release_fat ==
    /\ pc = "idle"
    /\ ret # NoRet
    /\ ret' = NoRet
    /\ errs' = << >>
    /\ s_fat_table' = free(s_fat_table)
    /\ UNCHANGED << First_Logical_Cluster_of_choice, head_DirList, calls, mounts, seen, lost, vol, s_fptr, s_sectorSize,
                    s_FAT12Infor,
                    num_cluster_in_root_directory,
                    cluster_started_in_physical_of_rootdirectory,
                    Cluster_starts_in_physical_of_the_data_area, s_dirList,
                    Cluster_size, pc, arg, cur, buff, head, walked >>

\* deallocate_Dir_List / deallocate_Cluster_List on the list the caller holds
Release ==
    /\ pc = "idle"
    /\ ret # NoRet
    /\ ret' = NoRet
    /\ errs' = << >>
    /\ UNCHANGED << First_Logical_Cluster_of_choice, head_DirList, calls, mounts, seen, lost, vol, s_fptr, s_sectorSize,
                    s_FAT12Infor, s_fat_table,
                    num_cluster_in_root_directory,
                    cluster_started_in_physical_of_rootdirectory,
                    Cluster_starts_in_physical_of_the_data_area, s_dirList,
                    Cluster_size, pc, arg, cur, buff, head, walked >>

\* main on exit (lines 531-533): release the listing, fatfs_de_init
Unmount ==
    /\ pc = "idle"
    /\ pc' = "done"
    /\ ret' = NoRet
    /\ s_fptr' = "closed"
    /\ s_fat_table' = free(s_fat_table)
    /\ UNCHANGED << First_Logical_Cluster_of_choice, head_DirList, calls, mounts, seen, lost, vol, s_sectorSize, s_FAT12Infor,
                    num_cluster_in_root_directory,
                    cluster_started_in_physical_of_rootdirectory,
                    Cluster_starts_in_physical_of_the_data_area, s_dirList,
                    Cluster_size, arg, cur, buff, head, walked, errs >>

Next ==
    \/ Mount
    \/ ReadDirRoot
    \/ ReadDirSub
    \/ DirStep
    \/ ReadFile
    \/ FileStep
    \/ Release
    \/ Unmount

Spec == Init /\ [][Next]_vars

(***************************************************************************)
(* Lookups in the cached FAT on their own: images whose FAT holds a pair   *)
(* of 12-bit values (a, b) in the entries 2k and 2k + 1.                   *)
(***************************************************************************)
Vals12 == {0, 1, 15, 240, 291, 2047, 2048, 2748, 3840, 4086, 4087, 4095}

PairEntries(k, a, b) ==
    [j \in 1 .. 2 * (MaxPair + 1) |->
        IF j = 2 * k + 1 THEN a ELSE IF j = 2 * k + 2 THEN b ELSE (j * 1171) % 4096]

FatVolumes ==
    {MkVol(SmallBoot, PairEntries(k, a, b), << >>, << >>, 0) :
        k \in 0 .. MaxPair, a \in Vals12, b \in Vals12}

InitFat == InitOn(FatVolumes)

\* get_fat_entry_next(n) on the mounted volume
LookupFat ==
    /\ pc = "idle"
    /\ \E n \in 0 .. 2 * MaxPair + 1 :
         /\ FatInBounds(s_fat_table, n)
         /\ arg' = n
         /\ cur' = get_fat_entry_next(FatView(vol, s_fat_table, n, 0), n)
    /\ pc' = "looked"
    /\ UNCHANGED << First_Logical_Cluster_of_choice, head_DirList, calls, mounts, seen, lost, vol, s_fptr, s_sectorSize,
                    s_FAT12Infor, s_fat_table,
                    num_cluster_in_root_directory,
                    cluster_started_in_physical_of_rootdirectory,
                    Cluster_starts_in_physical_of_the_data_area, s_dirList,
                    Cluster_size, buff, head, walked, ret, errs >>

NextFat ==
    \/ Mount
    \/ LookupFat

SpecFat == InitFat /\ [][NextFat]_vars

\* C1: the lookup of entry n returns the 12-bit value the image packed as
\* entry n: for even n the low nibble of byte 3n/2+1 shifted left 8 with
\* byte 3n/2, for odd n byte 3n/2+1 shifted left 4 with the high nibble of
\* byte 3n/2; the result is in 0..0xFFF.
C1_FatRoundTrip ==
    pc = "looked" =>
        LET i  == (3 * arg) \div 2
            b0 == vol.fat[i + 1]
            b1 == vol.fat[i + 2]
        IN  /\ cur = vol.entries[arg + 1]
            /\ cur \in 0 .. 4095
            /\ arg % 2 = 0 => cur = (b1 % 16) * 256 + b0
            /\ arg % 2 = 1 => cur = b1 * 16 + b0 \div 16

\* C1 witness: an odd entry 0xABC looked up beside an even entry 0x123
C1_Witness ==
    /\ pc = "looked"
    /\ arg % 2 = 1
    /\ cur = 2748
    /\ vol.entries[arg] = 291

(***************************************************************************)
(* Mounting on its own: images that differ in their boot sector.  The      *)
(* boot sectors are those of volumes whose FATs and root directory lie     *)
(* inside the volume, whose sector count is a 16-bit field.                *)
(***************************************************************************)
FloppyBoot ==
    [bps |-> 512, spc |-> 1, nfats |-> 2, maxroot |-> 224, total |-> 2880, spf |-> 9]

GeomBoots ==
    {b \in [bps : {0, 512, 513, 1024, 4096}, spc : {0, 1, 2, 8}, nfats : {1, 2},
            maxroot : {16, 100, 224, 512}, total : {2880, 65535},
            spf : {1, 9, 12, 30000}] :
        1 + b.nfats * b.spf + (b.maxroot * ENTRY_SIZE) \div Max(b.bps, 1) <= b.total}

GeomVolumes == {MkVol(b, FatEntries(<< 4095, 4095, 4095 >>), << >>, << >>, 0) : b \in GeomBoots}

InitGeom == InitOn(GeomVolumes)

NextGeom ==
    \/ Mount
    \/ Unmount

SpecGeom == InitGeom /\ [][NextGeom]_vars

\* C2: after a successful mount the derived geometry is: cluster size =
\* sectors-per-cluster * bytes-per-sector, root cluster count =
\* (max-root-entries * 32) / bytes-per-sector truncated, root start =
\* FAT-count * sectors-per-FAT + 1, data start = root start + root cluster
\* count, all of the fields as they stand in the boot sector of the image;
\* for the 1.44MB floppy boot sector these are 512, 14, 19, 33.
C2_DerivedGeometry ==
    pc = "idle" =>
        /\ Cluster_size = vol.boot.spc * vol.boot.bps
        /\ num_cluster_in_root_directory = (vol.boot.maxroot * 32) \div vol.boot.bps
        /\ cluster_started_in_physical_of_rootdirectory
               = vol.boot.nfats * vol.boot.spf + 1
        /\ Cluster_starts_in_physical_of_the_data_area
               = cluster_started_in_physical_of_rootdirectory
                     + num_cluster_in_root_directory
        /\ vol.boot = FloppyBoot =>
               /\ Cluster_size = 512
               /\ num_cluster_in_root_directory = 14
               /\ cluster_started_in_physical_of_rootdirectory = 19
               /\ Cluster_starts_in_physical_of_the_data_area = 33

\* C2 witness: the floppy image mounted
C2_Witness ==
    /\ pc = "idle"
    /\ vol.boot = FloppyBoot
    /\ Cluster_starts_in_physical_of_the_data_area = 33

(***************************************************************************)
(* What the image says, read off the image itself: its FAT entries as      *)
(* built, the place of its clusters, its chains.                           *)
(***************************************************************************)
ImgFat(v, c) == IF c + 1 <= Len(v.entries) THEN v.entries[c + 1] ELSE 0

ImgClusterAt(v, c) == (ImgDataStart(v) + (c - 2) * v.boot.spc) * ImgSectorSize(v)

ImgClusterBytes(v) == v.boot.spc * v.boot.bps

\* the chain that starts at cluster c, followed through at most fuel clusters
RECURSIVE ImgChain(_, _, _)
ImgChain(v, c, fuel) ==
    IF fuel = 0 THEN << >>
    ELSE IF ImgFat(v, c) >= 4087 THEN << c >>
    ELSE << c >> \o ImgChain(v, ImgFat(v, c), fuel - 1)

\* the cached FAT is the whole first FAT of the image
FatLoaded ==
    /\ s_fat_table.ptr = "heap"
    /\ s_fat_table.at = ImgSectorSize(vol)
    /\ s_fat_table.n = s_fat_table.len
    /\ s_fat_table.len > 0

\* C3: in the subdirectory walk and in the file walk, once a cluster has
\* been processed, the walk returns when the FAT entry of that cluster is
\* in 0xFF7..0xFFF and goes on with that entry as the next cluster when it
\* is below 0xFF7.
C3_ChainRule ==
    [][ ( /\ pc \in {"dir", "file"}
          /\ FatLoaded
          /\ cur + 1 <= Len(vol.entries)
          /\ \/ pc' = pc /\ walked' = Append(walked, cur)
             \/ pc' = "idle" /\ ret'.walked = Append(walked, cur) )
        => IF ImgFat(vol, cur) \in 4087 .. 4095
           THEN pc' = "idle" /\ ret'.kind = pc
           ELSE pc' = pc /\ cur' = ImgFat(vol, cur) /\ ImgFat(vol, cur) < 4087
      ]_vars

\* C3 witness: a subdirectory walk that went on from cluster 2 to cluster 3
\* and returned there on the entry 0xFF7
C3_Witness ==
    /\ pc = "idle"
    /\ ret.kind = "dir"
    /\ ret.walked = << 2, 3 >>
    /\ ImgFat(vol, 2) = 3
    /\ ImgFat(vol, 3) = 4087

\* C4: with every read full and every allocation successful, read_file on
\* a chain of N clusters returns exactly N buffers of cluster-size bytes,
\* the i-th holding the bytes of the i-th cluster of the chain.
C4_FileRead ==
    ( /\ pc = "idle"
      /\ ret.kind = "file"
      /\ errs = << >>
      /\ FatLoaded )
    => LET ch == ImgChain(vol, ret.arg, MaxWalk + 1)
       IN  /\ Len(ret.list) = Len(ch)
           /\ \A i \in 1 .. Len(ret.list) :
                LET b == ret.list[i].data_in_cluster
                IN  /\ b.ptr = "heap"
                    /\ b.len = ImgClusterBytes(vol)
                    /\ \A k \in 0 .. b.len - 1 :
                         BufByte(vol, b, k) = DiskByte(vol, ImgClusterAt(vol, ch[i]) + k)

\* C4 witness: the two-cluster file 2 -> 3 read into two buffers of 512 bytes
C4_Witness ==
    /\ pc = "idle"
    /\ ret.kind = "file"
    /\ errs = << >>
    /\ FatLoaded
    /\ ret.arg = 2
    /\ ImgChain(vol, 2, MaxWalk + 1) = << 2, 3 >>
    /\ Len(ret.list) = 2
    /\ ret.list[1].data_in_cluster.len = 512
    /\ ret.list[2].data_in_cluster.len = 512
    /\ vol.data[2] # vol.data[3]

(***************************************************************************)
(* Directory listings against the image.  A node remembers the image       *)
(* offset of the slot it was decoded from (src).                           *)
(***************************************************************************)
\* the nodes of the listing being built, or of the one returned
DirNodes ==
    IF pc = "dir" THEN head
    ELSE IF ret.kind = "dir" THEN ret.list
    ELSE << >>

ImgRootAt(v) == ImgRootStart(v) * ImgSectorSize(v)

\* the start of the directory buffer (root region or cluster) that holds off
ImgBufBase(v, off) ==
    IF off < ImgDataStart(v) * ImgSectorSize(v)
    THEN ImgRootAt(v)
    ELSE ImgClusterAt(v, 2 + ((off \div ImgSectorSize(v)) - ImgDataStart(v))
                                 \div v.boot.spc)

ImgOrdinary(v, off) == DiskByte(v, off) # 0 /\ DiskByte(v, off + 11) # 15

ImgLongName(v, off) == DiskByte(v, off) # 0 /\ DiskByte(v, off + 11) = 15

ImgNoEndBefore(v, base, j) == \A h \in 0 .. j - 1 : DiskByte(v, base + 32 * h) # 0

ImgFirstCluster(v, off) == DiskByte(v, off + 26) + 256 * DiskByte(v, off + 27)

\* the slots of the buffer at base that a listing of directory S shows
\* (S = 0: the root, which filters nothing), in slot order
ImgSlots(v, base, S) ==
    LET Shown(off) == /\ ImgOrdinary(v, off)
                      /\ ImgNoEndBefore(v, base, (off - base) \div 32)
                      /\ (S # 0 => ImgFirstCluster(v, off) # S)
    IN  SelectSeq([j \in 1 .. 16 |-> base + 32 * (j - 1)], Shown)

RECURSIVE ImgListing(_, _, _)
ImgListing(v, S, ch) ==
    IF ch = << >> THEN << >>
    ELSE ImgSlots(v, ImgClusterAt(v, Head(ch)), S) \o ImgListing(v, S, Tail(ch))

Listed(off) == \E k \in 1 .. Len(DirNodes) : DirNodes[k].src = off

\* a subdirectory listing that returned with nothing reported
SubListingReturned ==
    /\ pc = "idle"
    /\ ret.kind = "dir"
    /\ ret.arg # 0
    /\ ret.walked # << >>
    /\ errs = << >>
    /\ FatLoaded

\* C5: list_directory on a subdirectory whose chain has two or more
\* clusters returns the ordinary entries of every cluster of the chain, in
\* chain order and in slot order within a cluster, and every cluster after
\* the first is read into a valid (non-null) cluster buffer.
C5_MultiClusterListing ==
    /\ ( /\ pc = "dir"
          /\ walked # << >>
          /\ FatLoaded
          /\ Len(ImgChain(vol, arg, MaxWalk + 1)) >= 2 )
       => buff = "valid"
    /\ (SubListingReturned /\ Len(ImgChain(vol, ret.arg, MaxWalk + 1)) >= 2)
       => [k \in 1 .. Len(ret.list) |-> ret.list[k].src]
              = ImgListing(vol, ret.arg, ImgChain(vol, ret.arg, MaxWalk + 1))

\* C6: in a directory buffer no slot at or after the first slot whose first
\* byte is 0x00 is listed, whatever the attribute of that slot: every
\* listed slot has only non-zero first bytes at and before it in its buffer.
C6_NothingAfterEnd ==
    \A k \in 1 .. Len(DirNodes) :
        LET src  == DirNodes[k].src
            base == ImgBufBase(vol, src)
        IN  \A j \in 0 .. (src - base) \div 32 : DiskByte(vol, base + 32 * j) # 0

\* C6 witness: a root directory whose first slot starts with 0x00 and has
\* the attribute 0x0F, followed by an ordinary slot, listed as empty
C6_Witness ==
    /\ pc = "idle"
    /\ ret.kind = "dir"
    /\ ret.arg = 0
    /\ errs = << >>
    /\ vol.root = << SlotEndLfn, SlotFile >>
    /\ ret.list = << >>

\* C7: a slot with attribute 0x0F and a non-zero first byte is never
\* listed, and it does not stop the scan: an ordinary slot after it in the
\* buffer (no 0x00 slot before, not the self-reference) is listed.
C7_LongNameSkipped ==
    /\ \A k \in 1 .. Len(DirNodes) : ~ImgLongName(vol, DirNodes[k].src)
    /\ (pc = "idle" /\ ret.kind = "dir" /\ errs = << >>
          /\ (ret.arg = 0 \/ ret.walked # << >>))
       => LET base == IF ret.arg = 0 THEN ImgRootAt(vol)
                      ELSE ImgClusterAt(vol, ret.arg)
          IN  \A j \in 1 .. 15 :
                ( /\ \E h \in 0 .. j - 1 : ImgLongName(vol, base + 32 * h)
                  /\ ImgOrdinary(vol, base + 32 * j)
                  /\ ImgNoEndBefore(vol, base, j)
                  /\ (ret.arg # 0 => ImgFirstCluster(vol, base + 32 * j) # ret.arg) )
                => Listed(base + 32 * j)

\* C7 witness: a long-name slot followed by an ordinary slot in the root
\* directory, listed as the ordinary slot alone
C7_Witness ==
    /\ pc = "idle"
    /\ ret.kind = "dir"
    /\ ret.arg = 0
    /\ errs = << >>
    /\ vol.root = << SlotLfn, SlotFile >>
    /\ Len(ret.list) = 1
    /\ ret.list[1].src = ImgRootAt(vol) + 32

\* C8: a listing of the subdirectory that starts at cluster S holds no entry
\* whose first cluster is S, in whichever cluster of the chain the entry was
\* found, and every other ordinary entry of the clusters walked is listed.
C8_SelfReferenceFiltered ==
    SubListingReturned
    => /\ \A k \in 1 .. Len(ret.list) :
            ret.list[k].data.First_Logical_Cluster # ret.arg
       /\ \A w \in 1 .. Len(ret.walked) :
            LET base == ImgClusterAt(vol, ret.walked[w])
            IN  \A j \in 0 .. 15 :
                  ( /\ ImgOrdinary(vol, base + 32 * j)
                    /\ ImgNoEndBefore(vol, base, j)
                    /\ ImgFirstCluster(vol, base + 32 * j) # ret.arg )
                  => Listed(base + 32 * j)

\* C9: a slot whose first name byte is 0xE5 is never listed, in the root
\* directory and in subdirectories.
C9_DeletedSkipped ==
    \A k \in 1 .. Len(DirNodes) : DiskByte(vol, DirNodes[k].src) # 229

\* C10: every listed entry carries the fields of its own slot, decoded
\* little-endian: name bytes 0..7 and a null, extension bytes 8..10 and a
\* null at index 3, attribute byte 11, the times and dates of bytes 14..17
\* and 22..25, first cluster bytes 26..27, size bytes 28..31 under four
\* zero bytes; nothing of a slot decoded before.
C10_FieldsDecoded ==
    \A k \in 1 .. Len(DirNodes) :
        LET d    == DirNodes[k].data
            b(o) == DiskByte(vol, DirNodes[k].src + o)
        IN  /\ ImgOrdinary(vol, DirNodes[k].src)
            /\ \A o \in 0 .. 7 : d.File_name[o] = b(o)
            /\ d.File_name[8] = 0
            /\ \A o \in 0 .. 2 : d.Extension[o] = b(8 + o)
            /\ d.Extension[3] = 0
            /\ d.Attributes = b(11)
            /\ d.Creation_Time = b(14) + 256 * b(15)
            /\ d.Creation_Date = b(16) + 256 * b(17)
            /\ d.Last_Write_Time = b(22) + 256 * b(23)
            /\ d.Last_Write_Date = b(24) + 256 * b(25)
            /\ d.First_Logical_Cluster = b(26) + 256 * b(27)
            /\ \A o \in 0 .. 3 : d.File_Size_in_bytes[o] = b(28 + o)
            /\ \A o \in 4 .. 7 : d.File_Size_in_bytes[o] = 0

\* C10 witness: a returned listing of two entries decoded from two slots
\* that differ in every field
C10_Witness ==
    /\ pc = "idle"
    /\ ret.kind = "dir"
    /\ errs = << >>
    /\ Len(ret.list) = 2
    /\ ret.list[1].src # ret.list[2].src
    /\ ret.list[1].data.Creation_Time # ret.list[2].data.Creation_Time
    /\ ret.list[1].data.File_Size_in_bytes # ret.list[2].data.File_Size_in_bytes

(***************************************************************************)
(* Mounting, listing the root directory, unmounting and mounting again:    *)
(* on complete images, on images that end inside the boot sector, the FAT  *)
(* or the root directory, and on boot sectors with unusual sizes.          *)
(***************************************************************************)
MountRoots ==
    { << SlotFile, SlotDir2 >>, << SlotDeleted, SlotLfn >>,
      << SlotLfn, SlotDir3 >>, << SlotEnd, SlotFile >> }

\* the whole image; an image of 300 bytes (inside the boot sector), of 700
\* bytes (inside the first FAT), of 1636 bytes (inside the root directory)
MountCuts ==
    { 0, ImgBytes(SmallBoot, 4) - 300, ImgBytes(SmallBoot, 4) - 700,
      ImgBytes(SmallBoot, 4) - 1636 }

\* bytes-per-sector 0, not a multiple of 512, or larger; sectors-per-cluster 0
OddBoots ==
    {[SmallBoot EXCEPT !.bps = b, !.spc = c, !.maxroot = 32] :
        b \in {0, 513, 1024}, c \in {0, 1}}
    \cup {[SmallBoot EXCEPT !.spc = 0]}

MountVolumes ==
    {MkVol(SmallBoot, FatEntries(<< 4095, 4095, 4095 >>), d, << SlotFile >>, cut) :
        d \in MountRoots, cut \in MountCuts}
    \cup
    {MkVol(b, FatEntries(<< 4095, 4095, 4095 >>), << SlotFile, SlotDir2 >>,
           << SlotFile >>, 0) : b \in OddBoots}

InitMount == InitOn(MountVolumes)

NextMount ==
    \/ Remount
    \/ ReadDirRoot
    \/ Release
    \/ Unmount
    \/ Remount

SpecMount == InitMount /\ [][NextMount]_vars

\* fatfs_init has just returned 0 after reporting err once, and did not
\* load a FAT table
InitAborted(err) ==
    /\ pc' = "failed"
    /\ Cluster_size' = 0
    /\ errs' = << err >>
    /\ s_fat_table' = s_fat_table
    /\ s_fat_table'.ptr # "heap"

\* C11: a mount returns 0 and reports the matching error exactly once when
\* the image cannot be opened, when the boot-sector read is short, or when
\* the bytes-per-sector of the boot sector is not a multiple of 512; it
\* loads no FAT table then; also when a mount succeeded before.
C11_MountAborts ==
    [][ (mounts' = mounts + 1)
        => /\ (s_fptr' = "null") => InitAborted("ERROR_OPENING_FILE")
           /\ ( /\ s_fptr' = "open"
                /\ errs' # << "DYNAMIC_ALLOCATON_ERROR" >>
                /\ vol.size < KMC_DEFAULT_SECTOR_SIZE )
              => InitAborted("BOOT_SECTOR_READ_ERROR")
           /\ ( /\ s_fptr' = "open"
                /\ errs' # << "DYNAMIC_ALLOCATON_ERROR" >>
                /\ vol.size >= KMC_DEFAULT_SECTOR_SIZE
                /\ vol.boot.bps % KMC_DEFAULT_SECTOR_SIZE # 0 )
              => InitAborted("ERROR_UPDATING_SECTOR_SIZE")
      ]_vars

\* C11 witness: after a successful mount and an unmount, a second mount
\* that could not open the image
C11_Witness ==
    /\ mounts = 2
    /\ pc = "failed"
    /\ errs = << "ERROR_OPENING_FILE" >>
    /\ s_fat_table.ptr = "freed"
    /\ Cluster_size = 0

\* C12: when the read of the FAT table is short, the mount reports
\* MULTIPLE_SECTOR_READ_ERROR and aborts: it returns 0 and the caller does
\* not go on.
C12_FatShortReadAborts ==
    ( /\ pc \in {"idle", "failed", "crashed"}
      /\ calls = 0
      /\ errs = << "MULTIPLE_SECTOR_READ_ERROR" >> )
    => (pc = "failed" /\ Cluster_size = 0)

\* C13: on a boot sector whose bytes-per-sector or sectors-per-cluster is
\* 0 the mount fails cleanly: no division by zero, no fault, result 0, and
\* the caller attempts no listing and no file read.
C13_ZeroSizesFailCleanly ==
    ( /\ vol.boot.bps = 0 \/ vol.boot.spc = 0
      /\ pc # "boot"
      /\ s_fptr # "null"
      /\ errs # << "DYNAMIC_ALLOCATON_ERROR" >>
      /\ vol.size >= KMC_DEFAULT_SECTOR_SIZE )
    => /\ pc \in {"failed", "done"}
       /\ Cluster_size = 0
       /\ calls = 0

\* the image ends before the end of its root directory region
ImgRootShort(v) == v.size < ImgDataStart(v) * ImgSectorSize(v)

\* C14: when the read of the root region is short, list_directory(0)
\* reports ERROR_READING_ROOT_DIRECTORY once, returns no list, and decodes
\* no slot of the partial buffer.
C14_RootShortRead ==
    [][ ( /\ pc = "idle"
          /\ ret = NoRet
          /\ ret'.kind = "dir"
          /\ ret'.arg = 0
          /\ ImgRootShort(vol)
          /\ errs' # << "DYNAMIC_ALLOCATON_ERROR" >> )
        => /\ errs' = << "ERROR_READING_ROOT_DIRECTORY" >>
           /\ ret'.list = << >>
           /\ s_dirList' = s_dirList
           /\ pc' = "idle"
      ]_vars

\* C14 witness: the root listing of an image that ends 100 bytes into its
\* root directory, whose first slot is an ordinary entry
C14_Witness ==
    /\ pc = "idle"
    /\ ret.kind = "dir"
    /\ ret.arg = 0
    /\ ret.list = << >>
    /\ errs = << "ERROR_READING_ROOT_DIRECTORY" >>
    /\ ImgRootShort(vol)
    /\ vol.size >= ImgRootAt(vol) + 3 * ENTRY_SIZE
    /\ ImgOrdinary(vol, ImgRootAt(vol))

(***************************************************************************)
(* Short reads and failed allocations inside the walks.                    *)
(***************************************************************************)
\* the image ends before the end of data cluster c
ImgClusterShort(v, c) == v.size < ImgClusterAt(v, c) + ImgClusterBytes(v)

\* C15: when the read of a cluster in a subdirectory walk is short, the
\* walk reports ERROR_READING_SUB_DIRECTORY, skips the cluster and goes on
\* at the next chain link given by the FAT (or returns if that link is a
\* termination value); it does not read the same cluster again.
C15_SubShortReadSkips ==
    [][ ( /\ pc = "dir"
          /\ FatLoaded
          /\ cur + 1 <= Len(vol.entries)
          /\ ImgClusterShort(vol, cur)
          /\ errs' = Append(errs, "ERROR_READING_SUB_DIRECTORY") )
        => IF ImgFat(vol, cur) \in 4087 .. 4095
           THEN pc' = "idle"
           ELSE pc' = "dir" /\ cur' = ImgFat(vol, cur)
      ]_vars

\* C16: in read_file a cluster whose read is short still has its buffer
\* appended to the list, and the walk goes on at the next cluster given by
\* the FAT (or returns on a termination value); it never stays on the
\* same cluster.
C16_ShortReadAppended ==
    [][ ( /\ pc = "file"
          /\ FatLoaded
          /\ cur + 1 <= Len(vol.entries)
          /\ ImgClusterShort(vol, cur)
          /\ errs' = errs
          /\ pc' # "crashed" )
        => \/ /\ pc' = "file"
              /\ Len(head') = Len(head) + 1
              /\ cur' = ImgFat(vol, cur)
           \/ /\ pc' = "idle"
              /\ Len(ret'.list) = Len(head) + 1
              /\ ImgFat(vol, cur) \in 4087 .. 4095
      ]_vars

\* C17: a step of list_directory or read_file in which the allocation of a
\* list node fails (createNodeEntry or createNodeCluster reports
\* DYNAMIC_ALLOCATON_ERROR) does not crash the process.
C17_NodeAllocFailureSurvived ==
    [][ (pc \in {"idle", "dir", "file"})
        => ~( /\ pc' = "crashed"
              /\ errs' # << >>
              /\ errs'[Len(errs')] = "DYNAMIC_ALLOCATON_ERROR"
              /\ (pc = "idle" \/ errs' = Append(errs, "DYNAMIC_ALLOCATON_ERROR")) )
      ]_vars

\* C18: when read_file cannot allocate a cluster buffer it reports
\* DYNAMIC_ALLOCATON_ERROR and returns to the caller; it does not try the
\* same cluster again.
C18_BufferAllocFailureAborts ==
    [][ ( /\ pc = "file"
          /\ errs' = Append(errs, "DYNAMIC_ALLOCATON_ERROR")
          /\ pc' # "crashed" )
        => pc' = "idle"
      ]_vars

(***************************************************************************)
(* Listings across mounts, and what the calls leave alone.                 *)
(***************************************************************************)
\* the entry a slot of the image denotes
ImgDecode(v, off) ==
    LET b(o) == DiskByte(v, off + o)
    IN  [File_name |-> [k \in 0 .. 8 |-> IF k < 8 THEN b(k) ELSE 0],
         Extension |-> [k \in 0 .. 4 |-> IF k < 3 THEN b(8 + k) ELSE 0],
         Attributes |-> b(11),
         Creation_Time |-> b(14) + 256 * b(15),
         Creation_Date |-> b(16) + 256 * b(17),
         Last_Write_Time |-> b(22) + 256 * b(23),
         Last_Write_Date |-> b(24) + 256 * b(25),
         First_Logical_Cluster |-> b(26) + 256 * b(27),
         File_Size_in_bytes |-> [k \in 0 .. 7 |-> IF k < 4 THEN b(28 + k) ELSE 0]]

\* the root listing of an image: a function of the image alone
ImgRootListing(v) ==
    LET slots == ImgSlots(v, ImgRootAt(v), 0)
    IN  [k \in 1 .. Len(slots) |-> [data |-> ImgDecode(v, slots[k]), src |-> slots[k]]]

\* C19: the root listings of one unchanged volume, taken before and after
\* an unmount and a second mount, hold the same entries in the same order;
\* each is the listing the volume contents determine, with nothing of an
\* earlier listing in it.
C19_RootListingRepeats ==
    /\ \A i \in 1 .. Len(seen) : \A j \in 1 .. Len(seen) : seen[i] = seen[j]
    /\ \A i \in 1 .. Len(seen) : seen[i] = ImgRootListing(vol)

\* C19 witness: a root directory of two entries listed under the first
\* mount and again under the second
C19_Witness ==
    /\ mounts = 2
    /\ pc = "idle"
    /\ Len(seen) = 2
    /\ ret.kind = "dir"
    /\ ret.list = seen[2]
    /\ Len(seen[1]) = 2

\* C20: between a successful mount and the next unmount no list_directory,
\* read_file or release call changes the boot-sector fields, the derived
\* offsets, or the cached FAT table.
C20_CallsKeepGeometry ==
    [][ ( /\ pc \in {"idle", "dir", "file"}
          /\ pc' # "done"
          /\ mounts' = mounts )
        => /\ s_FAT12Infor' = s_FAT12Infor
           /\ num_cluster_in_root_directory' = num_cluster_in_root_directory
           /\ cluster_started_in_physical_of_rootdirectory'
                  = cluster_started_in_physical_of_rootdirectory
           /\ Cluster_starts_in_physical_of_the_data_area'
                  = Cluster_starts_in_physical_of_the_data_area
           /\ s_sectorSize' = s_sectorSize
           /\ s_fat_table' = s_fat_table
           /\ vol' = vol
      ]_vars

\* C20 witness: a listing or file read made and its list released on a
\* mounted volume, the geometry and the FAT table still those of the image
C20_Witness ==
    /\ pc = "idle"
    /\ calls = 1
    /\ ret = NoRet
    /\ lost = 0
    /\ FatLoaded
    /\ s_FAT12Infor.bytes_per_sector = vol.boot.bps
    /\ Cluster_starts_in_physical_of_the_data_area = ImgDataStart(vol)
    /\ \A n \in 2 .. 4 :
         get_fat_entry_next(FatView(vol, s_fat_table, n, 0), n) = ImgFat(vol, n)

(***************************************************************************)
(* kmc_update_sector_size as fatfs_init calls it, on every boot sector of  *)
(* GeomBoots.                                                              *)
(***************************************************************************)
\* fatfs_init got as far as kmc_update_sector_size: the file was opened and
\* the boot sector read and parsed
SectorSizeOffered ==
    /\ pc # "boot"
    /\ s_fptr \in {"open", "closed"}
    /\ s_FAT12Infor.Number_of_FATs # 0

\* C21: the update of the block size to n succeeds exactly when n is a
\* positive multiple of 512, and then the block size is n; for every other
\* n, 0 included, it fails and the block size stays what it was (512).
C21_BlockSizeValidated ==
    SectorSizeOffered
    => LET n == s_FAT12Infor.bytes_per_sector
       IN  IF n > 0 /\ n % KMC_DEFAULT_SECTOR_SIZE = 0
           THEN /\ errs # << "ERROR_UPDATING_SECTOR_SIZE" >>
                /\ s_sectorSize = n
           ELSE /\ errs = << "ERROR_UPDATING_SECTOR_SIZE" >>
                /\ s_sectorSize = KMC_DEFAULT_SECTOR_SIZE

\* C30: on every mounted volume the byte ranges read for two distinct data
\* clusters, each from ClusterOffset(c) on and ClusterBytes long, do not
\* overlap, whatever the sectors-per-cluster value.
C30_ClusterRangesDisjoint ==
    (pc = "idle" /\ ClusterBytes > 0)
    => \A c1, c2 \in CallArgs :
          c1 < c2 => ClusterOffset(c1) + ClusterBytes <= ClusterOffset(c2)

(***************************************************************************)
(* The cached FAT and the heap during the walks.                           *)
(***************************************************************************)
\* C27: every pass of a walk that asks the FAT for the successor of its
\* cluster n reads inside the cached FAT: the table is allocated and not
\* freed, and byte index 3n/2 + 1 is below its length.
C27_LookupsInBounds ==
    [][ ( /\ pc \in {"dir", "file"}
          /\ \/ walked' = Append(walked, cur)
             \/ pc' = "idle" /\ ret'.walked = Append(walked, cur) )
        => /\ s_fat_table.ptr = "heap"
           /\ FatInBounds(s_fat_table, cur)
      ]_vars

\* C28: when list_directory or read_file has returned, every cluster buffer
\* the call allocated is owned by a node of the returned list or has been
\* freed: the call left no heap block that nothing points to.
C28_BuffersFreedOrOwned ==
    (pc = "idle" /\ ret.kind \in {"dir", "file"} /\ FatLoaded) => lost = 0

(***************************************************************************)
(* Mounting and unmounting by a caller that unmounts whatever fatfs_init   *)
(* returned, and may then mount again.                                     *)
(***************************************************************************)
\* What undefined behaviour can do in fatfs_de_init: free of a pointer
\* already freed, fclose of a null or closed handle: "trap", or the call
\* "returns".
DeInitOutcomes ==
    IF s_fat_table.ptr = "freed" \/ s_fptr # "open"
    THEN {"trap", "returns"}
    ELSE {"returns"}

\* fatfs_de_init (lines 600-606, HAL.c 139-143) after a fatfs_init that
\* returned, whether with a cluster size or with 0
DeInit ==
    /\ pc \in {"idle", "failed"}
    /\ ret = NoRet
    /\ \E ub \in DeInitOutcomes :
         IF ub = "trap"
         THEN /\ pc' = "crashed"
              /\ UNCHANGED << s_fptr, s_fat_table >>
         ELSE /\ pc' = "done"
              /\ s_fptr' = IF s_fptr = "null" THEN "null" ELSE "closed"
              /\ s_fat_table' = free(s_fat_table)
    /\ UNCHANGED << First_Logical_Cluster_of_choice, head_DirList, calls, mounts, seen, lost, vol, s_sectorSize, s_FAT12Infor,
                    num_cluster_in_root_directory,
                    cluster_started_in_physical_of_rootdirectory,
                    Cluster_starts_in_physical_of_the_data_area, s_dirList,
                    Cluster_size, arg, cur, buff, head, walked, ret, errs >>

NextCycle ==
    \/ Remount
    \/ DeInit

SpecCycle == InitMount /\ [][NextCycle]_vars

\* C29: every fatfs_de_init frees a FAT pointer that is null or allocated
\* and not yet freed, and closes a handle that is open, also after a mount
\* that failed part-way.
C29_UnmountReleasesOnce ==
    [][ (pc \in {"idle", "failed"} /\ pc' \in {"done", "crashed"})
        => /\ s_fat_table.ptr # "freed"
           /\ s_fptr = "open"
      ]_vars

\* the clusters the running walk has processed
Visited == {walked[i] : i \in 1 .. Len(walked)}

\* C23: with every read full and every allocation successful a walk runs
\* to completion, whatever the FAT holds: read_file is never back at a
\* cluster it has already processed (a pass depends only on the cluster
\* number and on the FAT, which no pass changes, so a walk that is back at
\* a cluster repeats from there without end; list_directory walks the same
\* way wherever its later reads are carried out).
C23_WalkRunsToCompletion ==
    ( /\ pc = "file"
      /\ FatLoaded
      /\ errs = << >>
      /\ lost = 0 )
    => cur \notin Visited

\* the buffer at base holds a slot whose first byte is 0x00
ImgHasEnd(v, base) == ~ImgNoEndBefore(v, base, 16)

\* C24: in a subdirectory walk a slot with first byte 0x00 ends the scan of
\* its own cluster only: after a cluster that holds one, the walk goes on
\* to the next cluster of the chain and lists the ordinary entries found
\* there (before that cluster's own 0x00 slot); in the root directory the
\* 0x00 slot ends the scan of the whole root region.
C24_EndSlotEndsOneCluster ==
    /\ []( ( /\ pc = "idle"
             /\ ret.kind = "dir"
             /\ ret.arg = 0 )
           => \A k \in 1 .. Len(ret.list) :
                ImgNoEndBefore(vol, ImgRootAt(vol),
                               (ret.list[k].src - ImgRootAt(vol)) \div 32 + 1) )
    /\ [][ ( /\ pc = "dir"
             /\ FatLoaded
             /\ walked # << >>
             /\ ImgHasEnd(vol, ImgClusterAt(vol, walked[Len(walked)]))
             /\ cur \in CallArgs
             /\ ~ImgClusterShort(vol, cur)
             /\ vol.boot.spc = 1 )
           => /\ pc' \in {"dir", "idle"}
              /\ errs' = errs
              /\ LET base == ImgClusterAt(vol, cur)
                     list == IF pc' = "dir" THEN head' ELSE ret'.list
                 IN  \A j \in 0 .. 15 :
                       ( /\ ImgOrdinary(vol, base + 32 * j)
                         /\ ImgNoEndBefore(vol, base, j)
                         /\ ImgFirstCluster(vol, base + 32 * j) \notin {arg, cur} )
                       => \E k \in 1 .. Len(list) : list[k].src = base + 32 * j
         ]_vars

(***************************************************************************)
(* main (src/unnamed/part_000, lines 389-550): fatfs_init, the listing of  *)
(* the root directory, then the loop that prints the listing, reads the    *)
(* user's choice and calls fatfs_read_dir or fatfs_read_file on the entry  *)
(* chosen, until the user exits.  serial_number and count are 1 at the     *)
(* top of every pass of the loop.                                          *)
(***************************************************************************)
\* calls of fatfs_read_dir and fatfs_read_file main is followed through
MaxMainCalls == 3

\* a "." or ".." entry of a subdirectory, pointing at cluster fc
SlotDot(fc) == MkSlot(46, 16, fc, 8)

\* a file of length 0: its first cluster is 0
SlotEmptyFile == MkSlot(71, 32, 0, 9)

\* an image with its own root directory, cluster 2, cluster 3 and FAT
MainVol(root, d2, d3, ch) ==
    [MkVol(SmallBoot, FatEntries(ch), d2, d3, 0) EXCEPT !.root = root]

\* a root directory with a file and a directory whose cluster holds ".",
\* ".." and an empty file; an empty root directory; a root directory with
\* an empty file; a file whose chain runs into a free FAT entry
MainVolumes ==
    { MainVol(<< SlotFile, SlotDir2 >>,
              << SlotDot(2), SlotDot(0), SlotEmptyFile >>, << SlotFile >>,
              << 4095, 4095, 4095 >>),
      MainVol(<< >>, << >>, << >>, << 4095, 4095, 4095 >>),
      MainVol(<< SlotEmptyFile >>, << >>, << >>, << 4095, 4095, 4095 >>),
      MainVol(<< SlotFile >>, << >>, << >>, << 4095, 4095, 0 >>) }

InitMain == InitOn(MainVolumes)

\* '.' == temp_DirList->data.File_name[0]
IsDot(node) == node.data.File_name[0] = 46

\* (temp_DirList->data.Attributes >> 4) & 1
IsFolder(node) == Shr(node.data.Attributes, 4) % 2 = 1

\* serial_number when print_Dir_List returns: 1 and one more for every
\* node whose name does not start with '.'
SerialAfterPrint(list) ==
    1 + Cardinality({k \in 1 .. Len(list) : ~IsDot(list[k])})

\* deallocate_Dir_List: the blocks it frees, in order
deallocate_Dir_List(list) == [k \in 1 .. Len(list) |-> << "node", k >>]

\* deallocate_Cluster_List from node k on: the blocks it frees, in order
RECURSIVE deallocate_Cluster_List(_, _)
deallocate_Cluster_List(list, k) ==
    IF k > Len(list) THEN << >>
    ELSE << << "data", k >>, << "node", k >> >> \o deallocate_Cluster_List(list, k + 1)

\* head_DirList = fatfs_read_dir(...) once the call has returned
Assigned(list) ==
    IF list = << >> THEN NullList ELSE [st |-> "live", list |-> list]

\* deallocate_Dir_List(head_DirList): what the pointer then points to
Released(h) == IF h.st = "live" THEN [h EXCEPT !.st = "freed"] ELSE h

\* the blocks of a listing that deallocate_Dir_List leaves allocated
DirBlocksLeft(h) ==
    IF h.st = "live" THEN Len(h.list) - Len(deallocate_Dir_List(h.list)) ELSE 0

\* What undefined behaviour can do when a field is read through
\* head_DirList while it points to no node: "trap", or the field is "read".
HeadReadOutcomes(h) == IF h.st = "live" THEN {"read"} ELSE {"trap", "read"}

\* line 415: First_Logical_Cluster_of_choice is 0
MainStart ==
    /\ pc = "idle"
    /\ ret = NoRet
    /\ pc' = "calldir"
    /\ arg' = First_Logical_Cluster_of_choice
    /\ UNCHANGED << First_Logical_Cluster_of_choice, head_DirList, calls, mounts, seen, lost, vol, s_fptr,
                    s_sectorSize, s_FAT12Infor, s_fat_table,
                    num_cluster_in_root_directory,
                    cluster_started_in_physical_of_rootdirectory,
                    Cluster_starts_in_physical_of_the_data_area, s_dirList,
                    Cluster_size, cur, buff, head, walked, ret, errs >>

\* fatfs_read_dir(First_Logical_Cluster_of_choice), lines 415, 436, 450, 518
MainReadDir ==
    /\ pc = "calldir"
    /\ IF arg = 0 THEN RootCall ELSE SubCall(arg)

\* fatfs_read_file(First_Logical_Cluster_of_choice), line 490
MainReadFile ==
    /\ pc = "callfile"
    /\ FileCall(arg)

\* head_DirList = the list fatfs_read_dir returned
MainTake ==
    /\ pc = "idle"
    /\ ret.kind = "dir"
    /\ head_DirList' = Assigned(ret.list)
    /\ lost' = IF head_DirList.st = "live" THEN lost + Len(head_DirList.list)
               ELSE lost
    /\ ret' = NoRet
    /\ pc' = "menu"
    /\ UNCHANGED << First_Logical_Cluster_of_choice, calls, mounts, seen, vol, s_fptr,
                    s_sectorSize, s_FAT12Infor, s_fat_table,
                    num_cluster_in_root_directory,
                    cluster_started_in_physical_of_rootdirectory,
                    Cluster_starts_in_physical_of_the_data_area, s_dirList,
                    Cluster_size, arg, cur, buff, head, walked, errs >>

\* a plausible slip: the directory listing is freed with the file contents
MainShowFile_freesdir ==
    /\ pc = "idle"
    /\ ret.kind = "file"
    /\ lost' = lost + 2 * Len(ret.list) - Len(deallocate_Cluster_List(ret.list, 1))
    /\ head_DirList' = Released(head_DirList)
    /\ ret' = NoRet
    /\ pc' = "menu"
    /\ UNCHANGED << First_Logical_Cluster_of_choice, calls, mounts, seen, vol, s_fptr,
                    s_sectorSize, s_FAT12Infor, s_fat_table,
                    num_cluster_in_root_directory,
                    cluster_started_in_physical_of_rootdirectory,
                    Cluster_starts_in_physical_of_the_data_area, s_dirList,
                    Cluster_size, arg, cur, buff, head, walked, errs >>

\* lines 490-509: the clusters fatfs_read_file returned are printed, the
\* list is released, head_cluster_list = NULL
MainShowFile ==
    /\ pc = "idle"
    /\ ret.kind = "file"
    /\ lost' = lost + 2 * Len(ret.list) - Len(deallocate_Cluster_List(ret.list, 1))
    /\ ret' = NoRet
    /\ pc' = "menu"
    /\ UNCHANGED << First_Logical_Cluster_of_choice, head_DirList, calls, mounts, seen, vol, s_fptr,
                    s_sectorSize, s_FAT12Infor, s_fat_table,
                    num_cluster_in_root_directory,
                    cluster_started_in_physical_of_rootdirectory,
                    Cluster_starts_in_physical_of_the_data_area, s_dirList,
                    Cluster_size, arg, cur, buff, head, walked, errs >>

\* main releases the listing and asks for the one that starts at cluster S
\* (lines 433-436, 445-450, 484-518)
ReleaseAndList(S) ==
    /\ lost' = lost + DirBlocksLeft(head_DirList)
    /\ head_DirList' = NullList
    /\ pc' = "calldir"
    /\ arg' = S
    /\ UNCHANGED << s_fptr, s_fat_table >>

\* One pass of the do-while of main up to the call it makes, lines 417-542:
\* print_Dir_List, get_input, and the branch taken on the choice.
MainLoop ==
    /\ pc = "menu"
    /\ LET h        == head_DirList
           serial   == SerialAfterPrint(h.list)
           firstDot == h.st = "live" /\ IsDot(h.list[1])
       IN  \E ub \in HeadReadOutcomes(h), exit \in BOOLEAN, choice \in 0 .. serial - 1 :
             IF ub = "trap"
             THEN /\ pc' = "crashed"
                  /\ UNCHANGED << First_Logical_Cluster_of_choice, head_DirList,
                                  lost, arg, s_fptr, s_fat_table >>
             ELSE IF exit
             THEN /\ lost' = lost + DirBlocksLeft(h)
                  /\ head_DirList' = Released(h)
                  /\ s_fat_table' = free(s_fat_table)
                  /\ s_fptr' = "closed"
                  /\ pc' = "done"
                  /\ UNCHANGED << First_Logical_Cluster_of_choice, arg >>
             ELSE /\ calls < MaxMainCalls
                  /\ IF choice = 0 /\ ~firstDot
                     THEN /\ ReleaseAndList(0)
                          /\ UNCHANGED First_Logical_Cluster_of_choice
                     ELSE IF choice = 0
                     THEN /\ First_Logical_Cluster_of_choice' =
                                 h.list[1].data.First_Logical_Cluster
                          /\ ReleaseAndList(h.list[1].data.First_Logical_Cluster)
                     ELSE LET idx == IF firstDot THEN choice + 1 ELSE choice
                          IN  IF idx > Len(h.list)
                              THEN /\ pc' = "crashed"
                                   /\ UNCHANGED << First_Logical_Cluster_of_choice,
                                                   head_DirList, lost, arg,
                                                   s_fptr, s_fat_table >>
                              ELSE /\ First_Logical_Cluster_of_choice' =
                                          h.list[idx].data.First_Logical_Cluster
                                   /\ IF IsFolder(h.list[idx])
                                      THEN ReleaseAndList(
                                               h.list[idx].data.First_Logical_Cluster)
                                      ELSE /\ pc' = "callfile"
                                           /\ arg' = h.list[idx].data.First_Logical_Cluster
                                           /\ UNCHANGED << head_DirList, lost,
                                                           s_fptr, s_fat_table >>
    /\ UNCHANGED << calls, mounts, seen, vol,
                    s_sectorSize, s_FAT12Infor,
                    num_cluster_in_root_directory,
                    cluster_started_in_physical_of_rootdirectory,
                    Cluster_starts_in_physical_of_the_data_area, s_dirList,
                    Cluster_size, cur, buff, head, walked, ret, errs >>

NextMain ==
    \/ Mount
    \/ MainStart
    \/ MainReadDir
    \/ MainReadFile
    \/ DirStep
    \/ FileStep
    \/ MainTake
    \/ MainShowFile
    \/ MainLoop

SpecMain == InitMain /\ [][NextMain]_vars


\* C22: cluster numbers 0 and 1 are never used as data clusters: whenever
\* the subdirectory walk or the file walk is about to read the data area
\* for cluster cur and to look up the FAT entry of cur, cur is at least 2,
\* whether cur came from the entry the user chose or from the FAT.
C22_ReservedClustersUnused == pc \in {"dir", "file"} => cur >= 2


\* C26: when the listing main holds is empty (head_DirList is NULL), the
\* pass of the main loop prints the table and goes on to the next request
\* or to the exit: it does not fault on a field read through the null head.
C26_EmptyListingHandled ==
    [][(pc = "menu" /\ head_DirList.st = "NULL") => pc' \in {"calldir", "done"}]_vars


\* the blocks deallocate_Cluster_List frees are, node after node, the
\* buffer of the node and then the node
BufferThenNode(list) ==
    LET f == deallocate_Cluster_List(list, 1)
    IN  /\ Len(f) = 2 * Len(list)
        /\ \A k \in 1 .. Len(list) :
             f[2 * k - 1] = << "data", k >> /\ f[2 * k] = << "node", k >>

\* C25: after a successful mount, main releases every listing once and
\* wholly before it asks for the next one, releases every file-contents
\* list once (buffer, then node) before the next choice is read and leaves
\* the listing alone meanwhile, never holds a released listing when it
\* prints or reads a choice, and unmounts once, from the main loop, after
\* the last release, with the image open and the FAT not yet freed; after
\* the unmount nothing more happens.
C25_MainReleasesOnce ==
    /\ [](pc \in {"menu", "calldir", "callfile"} => head_DirList.st # "freed")
    /\ [][(pc = "menu" /\ pc' \in {"calldir", "done"})
            => /\ head_DirList.st # "freed"
               /\ head_DirList'.st # "live"
               /\ lost' = lost]_vars
    /\ [][pc' = "calldir" => head_DirList' = NullList]_vars
    /\ [][(pc = "idle" /\ ret.kind = "file" /\ pc' = "menu")
            => /\ BufferThenNode(ret.list)
               /\ ret' = NoRet
               /\ lost' = lost
               /\ head_DirList' = head_DirList]_vars
    /\ [][pc' = "done"
            => /\ pc \in {"menu", "done"}
               /\ (pc = "menu" => /\ s_fptr = "open"
                                  /\ s_fat_table.ptr # "freed"
                                  /\ s_fptr' = "closed"
                                  /\ s_fat_table'.ptr # "heap")]_vars
    /\ [][pc = "done" => UNCHANGED vars]_vars

\* the root directory was listed twice, then a file was read and released,
\* then the user left: every list is released and the volume is unmounted
C25_Witness ==
    /\ pc = "done"
    /\ calls = MaxMainCalls
    /\ Len(seen) = 2
    /\ First_Logical_Cluster_of_choice = 4
    /\ head_DirList.st = "freed"
    /\ lost = 0
    /\ s_fptr = "closed"
    /\ s_fat_table.ptr = "freed"

=============================================================================
